---- MODULE Spec2Model ----
(***************************************************************************)
(* Model of the two scripts of the repository:                             *)
(*   generate_dummy_data.py   - writes the Parquet data file once          *)
(*   automated_eda_duckdb.py  - queries the file with DuckDB and writes an *)
(*                              EDA report (summary text + PNG charts)     *)
(* Money is kept in integer cents; an average is kept as the exact         *)
(* fraction sum/count. A timestamp is a pair (day, tick within the day).   *)
(* A DataFrame is the ordered sequence of its columns, each with its name, *)
(* its dtype class and whether it holds a null.                            *)
(***************************************************************************)
EXTENDS Integers, Sequences, FiniteSets, TLC

VARIABLES
    dataFile,      \* the file large_transactions.parquet
    genOutcome,    \* how the last generator run ended
    outDirExists,  \* whether the directory eda_report_duckdb exists
    disk,          \* files of the output directory: path -> file
    pc,            \* position of the reporter process
    con,           \* DuckDB connection of the reporter process
    queries,       \* queries the reporter process has executed
    result,        \* rows returned by the last query
    df,            \* DataFrame handed to automated_exploratory_analysis
    title,         \* report_title
    idx,           \* index of the running for-loop over columns
    writes,        \* files the reporter process has opened for writing, in order
    hint,          \* whether the "run generate_dummy_data.py" hint was printed
    error          \* step whose exception terminated the process, or "none"

vars == <<dataFile, genOutcome, outDirExists, disk, pc, con, queries, result,
          df, title, idx, writes, hint, error>>

(***************************************************************************)
(* Bounds of the model                                                     *)
(***************************************************************************)
NumRows == 2          \* NUM_ROWS of the generator, scaled down
MaxFixtureRows == 3   \* rows of a data file given to the daily-sales query
MaxCols == 2          \* columns of a DataFrame given to the report function

\* the data file: whether it exists, and the rows it holds
Absent == [exists |-> FALSE, rows |-> <<>>]

Parquet(rows) == [exists |-> TRUE, rows |-> rows]

OUTPUT_DIR == "eda_report_duckdb"

\* values of the fields of a transaction record: (day, tick) timestamps,
\* quantities, prices in cents, categories, transaction ids
Timestamps == {<<1, 0>>, <<1, 1>>, <<2, 0>>}
Quantities == {1, 2}
Prices == {550, 725}
Categories == {"Electronics", "Books"}
TxnIds == {0, 1}

\* the values the generator's random draws are sampled down to
GenTimestamps == {<<1, 0>>, <<2, 0>>}
GenPrices == {550}
GenLocations == {"New York"}

ColNames == {"a", "b", "correlation_matrix"}
Dtypes == {"number", "object", "category", "bool", "datetime"}
Titles == {"duckdb_daily_sales", "duckdb_category_performance"}

Range(s) == {s[i] : i \in DOMAIN s}

SeqsUpTo(S, n) == UNION {[1..k -> S] : k \in 0..n}

(***************************************************************************)
(* generate_dummy_data.py                                                  *)
(***************************************************************************)
\* one random record of the data dictionary, for transaction_id id
\* (product_id and customer_id are read by no query and are left out)
GenRow(id) ==
    [transaction_id : {id}, transaction_date : GenTimestamps,
     quantity : Quantities, price_per_item : GenPrices,
     store_location : GenLocations, product_category : Categories]

\* the data dictionary: transaction_id is range(NUM_ROWS), the rest is random
GenData ==
    {d \in [1..NumRows -> UNION {GenRow(i) : i \in 0..(NumRows - 1)}] :
        \A i \in 1..NumRows : d[i].transaction_id = i - 1}

\* a generator that writes the file whether or not it exists
GenerateOverwrite ==
    \E data \in GenData :
        /\ dataFile' = Parquet(data)
        /\ genOutcome' = "generated"

\* if os.path.exists(FILENAME): skip; else: build the frame and write it
Generate ==
    IF dataFile.exists
    THEN /\ genOutcome' = "skipped"
         /\ UNCHANGED dataFile
    ELSE \E data \in GenData :
            /\ dataFile' = Parquet(data)
            /\ genOutcome' = "generated"

\* one run of generate_dummy_data.py
GeneratorRun ==
    /\ Generate
    /\ UNCHANGED <<outDirExists, disk, pc, con, queries, result, df, title,
                   idx, writes, hint, error>>

(***************************************************************************)
(* The SQL of automated_eda_duckdb.py                                      *)
(***************************************************************************)
\* CAST(transaction_date AS DATE): the day of the timestamp, its time dropped
CastAsDate(ts) == ts[1]

RECURSIVE SumOver(_, _)
\* SUM(v) over the rows with index in G, v[i] the summed expression on row i
SumOver(v, G) ==
    IF G = {} THEN 0
    ELSE LET i == CHOOSE j \in G : TRUE
         IN v[i] + SumOver(v, G \ {i})

\* quantity * price_per_item, by row
Revenue(rows) == [i \in DOMAIN rows |-> rows[i].quantity * rows[i].price_per_item]

RECURSIVE OrderBy(_)
\* ORDER BY sale_date: ascending
OrderBy(S) ==
    IF S = {} THEN <<>>
    ELSE LET m == CHOOSE x \in S : \A y \in S : x <= y
         IN <<m>> \o OrderBy(S \ {m})

\* COUNT(*) in place of COUNT(DISTINCT transaction_id)
CountRows(rows, G) == Cardinality(G)

\* COUNT(DISTINCT transaction_id) over the rows with index in G
CountDistinct(rows, G) == Cardinality({rows[i].transaction_id : i \in G})

\* daily_sales_query
DailySales(rows) ==
    LET dates == OrderBy({CastAsDate(rows[i].transaction_date) : i \in DOMAIN rows})
        G(d) == {i \in DOMAIN rows : CastAsDate(rows[i].transaction_date) = d}
    IN [k \in DOMAIN dates |->
          [sale_date |-> dates[k],
           total_revenue |-> SumOver(Revenue(rows), G(dates[k])),
           number_of_orders |-> CountDistinct(rows, G(dates[k])),
           average_order_value |->
               [num |-> SumOver(Revenue(rows), G(dates[k])),
                den |-> Cardinality(G(dates[k]))]]]

\* ROUND(x, 2) of the amount num/den cents: to the nearest cent, half away
\* from zero (amounts are never negative)
Round2(num, den) == (2 * num + den) \div (2 * den)

\* category_performance_query: one row per (product_category, store_location)
CategoryPerformance(rows) ==
    LET keys == {<<rows[i].product_category, rows[i].store_location>> : i \in DOMAIN rows}
        G(k) == {i \in DOMAIN rows :
                    <<rows[i].product_category, rows[i].store_location>> = k}
    IN {[product_category |-> k[1],
         store_location |-> k[2],
         transactions_count |-> Cardinality(G(k)),
         total_items_sold |-> SumOver([i \in DOMAIN rows |-> rows[i].quantity], G(k)),
         avg_item_price |-> Round2(SumOver([i \in DOMAIN rows |-> rows[i].price_per_item], G(k)), Cardinality(G(k)))]
        : k \in keys}

\* the orders a query without ORDER BY may return its rows in
Orderings(S) ==
    {s \in [1..Cardinality(S) -> S] : Range(s) = S}

Col(n, t) == [name |-> n, dtype |-> t, hasNull |-> FALSE]

\* fetchdf() of the daily-sales rows, sale_date passed through pd.to_datetime
DailySalesFrame ==
    <<Col("sale_date", "datetime"), Col("total_revenue", "number"),
      Col("number_of_orders", "number"), Col("average_order_value", "number")>>

\* fetchdf() of the category-performance rows
CategoryFrame ==
    <<Col("product_category", "object"), Col("store_location", "object"),
      Col("transactions_count", "number"), Col("total_items_sold", "number"),
      Col("avg_item_price", "number")>>

(***************************************************************************)
(* automated_exploratory_analysis(df, report_title)                        *)
(***************************************************************************)
\* df.select_dtypes(include=...): the columns of these dtypes, in order
SelectDtypes(frame, include) == SelectSeq(frame, LAMBDA c : c.dtype \in include)

\* df.select_dtypes(include=np.number).columns.tolist()
NumericalCols(frame) == SelectDtypes(frame, {"number"})

\* df.select_dtypes(include=['object', 'category']).columns
CategoricalColsForSummary(frame) == SelectDtypes(frame, {"object", "category"})

\* a column selection for the count plots that leaves the booleans out
CategoricalColsNoBool(frame) == SelectDtypes(frame, {"object", "category"})

\* df.select_dtypes(include=['object', 'category', 'bool']).columns.tolist()
CategoricalCols(frame) == SelectDtypes(frame, {"object", "category", "bool"})

\* a missing-values selection that keeps the columns without nulls too
MissingValuesAll(frame) == frame

\* missing_values[missing_values > 0] of df.isnull().sum()
MissingValues(frame) == SelectSeq(frame, LAMBDA c : c.hasNull)

\* a correlation test that is off by one
HasCorrelationAtLeastOne(frame) == Len(NumericalCols(frame)) > 0

\* len(numerical_cols) > 1
HasCorrelation(frame) == Len(NumericalCols(frame)) > 1

\* a file name that leaves the report title out
ReportFileNoTitle(report_title, rest) == OUTPUT_DIR \o "/" \o rest

\* os.path.join(OUTPUT_DIR, f"{report_title}_...")
ReportFile(report_title, rest) == OUTPUT_DIR \o "/" \o report_title \o "_" \o rest

SummaryPath(report_title) == ReportFile(report_title, "summary.txt")

MissingValuesPath(report_title) == ReportFile(report_title, "missing_values.png")

UnivariatePath(report_title, col) ==
    ReportFile(report_title, "univariate_" \o col \o ".png")

CorrelationPath(report_title) == ReportFile(report_title, "correlation_matrix.png")

\* what a file of the output directory is: the kind of output and the report
\* and column it was opened for, and, for a summary, whether it carries the
\* line "No categorical columns found in this dataset."
File(kind, col, notice) ==
    [kind |-> kind, report |-> title, column |-> col, notice |-> notice]

\* how a step ends: it returns; it raises before it opens its file; it raises
\* after it opened (created or truncated) its file
Outcomes == {"ok", "raise", "raise_partial"}

\* open(path, "w") / plt.savefig(path): the file is created or replaced; a
\* step that raises after that leaves it unfinished (a summary cut short has
\* not reached its categorical section)
WriteFile(path, file, outcome) ==
    IF outcome = "raise"
    THEN UNCHANGED <<disk, writes>>
    ELSE /\ disk' = [p \in DOMAIN disk \cup {path} |->
                        IF p = path
                        THEN [file EXCEPT !.notice = file.notice /\ outcome = "ok"]
                        ELSE disk[p]]
         /\ writes' = Append(writes, [path |-> path, kind |-> file.kind])

\* a step whose exception is swallowed
GotoSwallow(outcome, step, next) ==
    /\ pc' = next
    /\ error' = IF outcome = "ok" THEN error ELSE step

\* there is no try/except: a step that raises terminates the process
Goto(outcome, step, next) ==
    IF outcome = "ok"
    THEN pc' = next /\ UNCHANGED error
    ELSE pc' = "aborted" /\ error' = step

\* 1. Basic Information: the summary file. df.describe(include=np.number)
\* raises ValueError on a frame without numerical columns.
WriteSummary ==
    /\ pc = "eda_summary"
    /\ \E o \in Outcomes :
        /\ NumericalCols(df) = <<>> => o # "ok"
        /\ WriteFile(SummaryPath(title),
                     File("summary", "", CategoricalColsForSummary(df) = <<>>), o)
        /\ Goto(o, "summary", "eda_missing")
    /\ UNCHANGED <<dataFile, genOutcome, outDirExists, con, queries, result,
                   df, title, idx, hint>>

\* 2. Missing Values Analysis
MissingValuesChart ==
    /\ pc = "eda_missing"
    /\ \E o \in Outcomes :
        IF MissingValues(df) # <<>>
        THEN /\ WriteFile(MissingValuesPath(title), File("missing_values", "", FALSE), o)
             /\ Goto(o, "missing_values", "eda_numerical")
        ELSE /\ o = "ok"
             /\ UNCHANGED <<disk, writes>>
             /\ Goto(o, "missing_values", "eda_numerical")
    /\ idx' = 1
    /\ UNCHANGED <<dataFile, genOutcome, outDirExists, con, queries, result,
                   df, title, hint>>

\* 4. Univariate Analysis: one pass of "for col in numerical_cols", or its end
UnivariateNumerical ==
    /\ pc = "eda_numerical"
    /\ LET cols == NumericalCols(df)
       IN IF idx <= Len(cols)
          THEN \E o \in Outcomes :
                /\ WriteFile(UnivariatePath(title, cols[idx].name),
                             File("histogram_boxplot", cols[idx].name, FALSE), o)
                /\ Goto(o, "univariate_numerical", "eda_numerical")
                /\ idx' = IF o = "ok" THEN idx + 1 ELSE idx
          ELSE /\ pc' = "eda_categorical"
               /\ idx' = 1
               /\ UNCHANGED <<disk, writes, error>>
    /\ UNCHANGED <<dataFile, genOutcome, outDirExists, con, queries, result,
                   df, title, hint>>

\* one pass of "for col in categorical_cols", or its end
UnivariateCategorical ==
    /\ pc = "eda_categorical"
    /\ LET cols == CategoricalCols(df)
       IN IF idx <= Len(cols)
          THEN \E o \in Outcomes :
                /\ WriteFile(UnivariatePath(title, cols[idx].name),
                             File("count_plot", cols[idx].name, FALSE), o)
                /\ Goto(o, "univariate_categorical", "eda_categorical")
                /\ idx' = IF o = "ok" THEN idx + 1 ELSE idx
          ELSE /\ pc' = "eda_correlation"
               /\ idx' = 1
               /\ UNCHANGED <<disk, writes, error>>
    /\ UNCHANGED <<dataFile, genOutcome, outDirExists, con, queries, result,
                   df, title, hint>>

\* 5. Bivariate Analysis (Correlation Matrix), and the return
CorrelationMatrix ==
    /\ pc = "eda_correlation"
    /\ \E o \in Outcomes :
        IF HasCorrelation(df)
        THEN /\ WriteFile(CorrelationPath(title), File("correlation_matrix", "", FALSE), o)
             /\ Goto(o, "correlation_matrix", "eda_done")
        ELSE /\ o = "ok"
             /\ UNCHANGED <<disk, writes>>
             /\ Goto(o, "correlation_matrix", "eda_done")
    /\ UNCHANGED <<dataFile, genOutcome, outDirExists, con, queries, result,
                   df, title, idx, hint>>

(***************************************************************************)
(* automated_eda_duckdb.py, run as a script                                *)
(***************************************************************************)
\* positions at which no reporter process is running
Idle == {"not_started", "exited", "aborted", "finished"}

\* an existence test that never finds the file missing
PathAlwaysExists == TRUE

\* os.path.exists(DATA_FILE)
PathExists == dataFile.exists

\* a new process: os.makedirs(OUTPUT_DIR, exist_ok=True), then the check of
\* the data file, which prints the hint and exits when the file is absent
ReporterStart ==
    /\ pc \in Idle
    /\ outDirExists' = TRUE
    /\ con' = "none"
    /\ queries' = <<>>
    /\ writes' = <<>>
    /\ error' = "none"
    /\ result' = <<>>
    /\ df' = <<>>
    /\ title' = ""
    /\ idx' = 1
    /\ IF PathExists
       THEN hint' = FALSE /\ pc' = "connect"
       ELSE hint' = TRUE /\ pc' = "exited"
    /\ UNCHANGED <<dataFile, genOutcome, disk>>

\* con = duckdb.connect(database=':memory:', read_only=False)
Connect ==
    /\ pc = "connect"
    /\ \E o \in {"ok", "raise"} :
        /\ con' = IF o = "ok" THEN "open" ELSE con
        /\ Goto(o, "connect", "query_daily")
    /\ UNCHANGED <<dataFile, genOutcome, outDirExists, disk, queries, result,
                   df, title, idx, writes, hint>>

\* load_data_with_duckdb(sql_query, db_connection): the query is executed
\* on the connection as it is and against the data file as it is
LoadData(sql_query, rows, frame, report_title, o) ==
    /\ queries' = Append(queries, [sql |-> sql_query, con |-> con])
    /\ IF o = "ok"
       THEN result' = rows /\ df' = frame /\ title' = report_title
       ELSE UNCHANGED <<result, df, title>>

\* df_daily_sales = load_data_with_duckdb(daily_sales_query, con), the
\* conversion of sale_date, and the call of the report function
LoadDailySales ==
    /\ pc = "query_daily"
    /\ \E o \in {"ok", "raise"} :
        /\ LoadData("daily_sales_query", DailySales(dataFile.rows), DailySalesFrame,
                    "duckdb_daily_sales", o)
        /\ Goto(o, "daily_sales_query", "eda_summary")
    /\ UNCHANGED <<dataFile, genOutcome, outDirExists, disk, con, idx, writes, hint>>

\* df_category = load_data_with_duckdb(category_performance_query, con) and
\* the call of the report function
LoadCategoryPerformance ==
    /\ pc = "eda_done"
    /\ title = "duckdb_daily_sales"
    /\ \E o \in {"ok", "raise"} :
        \E rows \in Orderings(CategoryPerformance(dataFile.rows)) :
            /\ LoadData("category_performance_query", rows, CategoryFrame,
                        "duckdb_category_performance", o)
            /\ Goto(o, "category_performance_query", "eda_summary")
    /\ UNCHANGED <<dataFile, genOutcome, outDirExists, disk, con, idx, writes, hint>>

\* con.close(), the last statement of the script
Close ==
    /\ pc = "eda_done"
    /\ title = "duckdb_category_performance"
    /\ con' = "closed"
    /\ pc' = "finished"
    /\ UNCHANGED <<dataFile, genOutcome, outDirExists, disk, queries, result,
                   df, title, idx, writes, hint, error>>

(***************************************************************************)
(* Specifications                                                          *)
(***************************************************************************)
NoFiles == [p \in {} |-> 0]

\* both scripts, run any number of times one after the other
Init ==
    /\ dataFile = Absent
    /\ genOutcome = "none"
    /\ outDirExists = FALSE
    /\ disk = NoFiles
    /\ pc = "not_started"
    /\ con = "none"
    /\ queries = <<>>
    /\ result = <<>>
    /\ df = <<>>
    /\ title = ""
    /\ idx = 1
    /\ writes = <<>>
    /\ hint = FALSE
    /\ error = "none"

Report ==
    \/ WriteSummary
    \/ MissingValuesChart
    \/ UnivariateNumerical
    \/ UnivariateCategorical
    \/ CorrelationMatrix

Next ==
    \/ GeneratorRun
    \/ ReporterStart
    \/ Connect
    \/ LoadDailySales
    \/ LoadCategoryPerformance
    \/ Close
    \/ Report

Spec == Init /\ [][Next]_vars

\* the report function alone, called on any frame under any of the titles
Columns == [name : ColNames, dtype : Dtypes, hasNull : BOOLEAN]

Frames == SeqsUpTo(Columns, MaxCols)

InitEDA ==
    /\ dataFile = Absent
    /\ genOutcome = "none"
    /\ outDirExists = TRUE
    /\ disk = NoFiles
    /\ pc = "eda_summary"
    /\ con = "none"
    /\ queries = <<>>
    /\ result = <<>>
    /\ df \in Frames
    /\ title \in Titles
    /\ idx = 1
    /\ writes = <<>>
    /\ hint = FALSE
    /\ error = "none"

SpecEDA == InitEDA /\ [][Report]_vars

\* the daily-sales query alone, on any data file of the transaction schema
FixtureRows ==
    [transaction_id : TxnIds, transaction_date : Timestamps,
     quantity : Quantities, price_per_item : Prices,
     store_location : {"Online"}, product_category : {"Groceries"}]

Fixtures == SeqsUpTo(FixtureRows, MaxFixtureRows)

InitQuery ==
    /\ dataFile \in {Parquet(rows) : rows \in Fixtures}
    /\ genOutcome = "none"
    /\ outDirExists = TRUE
    /\ disk = NoFiles
    /\ pc = "query_daily"
    /\ con = "open"
    /\ queries = <<>>
    /\ result = <<>>
    /\ df = <<>>
    /\ title = ""
    /\ idx = 1
    /\ writes = <<>>
    /\ hint = FALSE
    /\ error = "none"

SpecQuery == InitQuery /\ [][LoadDailySales]_vars

(***************************************************************************)
(* Properties                                                              *)
(***************************************************************************)
DistinctNames(frame) ==
    \A i, j \in DOMAIN frame : i # j => frame[i].name # frame[j].name

\* number of columns of the frame whose dtype is in S
CountOfDtype(frame, S) == Cardinality({i \in DOMAIN frame : frame[i].dtype \in S})

\* files of one kind in the output directory
FilesOfKind(k) == {p \in DOMAIN disk : disk[p].kind = k}

\* writes of one kind by the running process
WritesOfKind(k) == {i \in DOMAIN writes : writes[i].kind = k}

HasNulls(frame) == \E i \in DOMAIN frame : frame[i].hasNull

\* C1: a run of the report function that returns, on a frame with distinct
\* column names, has written exactly one summary, one histogram+boxplot per
\* numerical column, one count plot per object, category or bool column, a
\* correlation matrix iff there are two or more numerical columns, a
\* missing-values chart iff some column holds a null, and nothing else
C1_ReportCompleteness ==
    (pc = "eda_done" /\ DistinctNames(df)) =>
        LET numerical == CountOfDtype(df, {"number"})
            categorical == CountOfDtype(df, {"object", "category", "bool"})
            correlation == IF numerical >= 2 THEN 1 ELSE 0
            missing == IF HasNulls(df) THEN 1 ELSE 0
        IN /\ Cardinality(FilesOfKind("summary")) = 1
           /\ Cardinality(FilesOfKind("histogram_boxplot")) = numerical
           /\ Cardinality(FilesOfKind("count_plot")) = categorical
           /\ Cardinality(FilesOfKind("correlation_matrix")) = correlation
           /\ Cardinality(FilesOfKind("missing_values")) = missing
           /\ Cardinality(DOMAIN disk) = 1 + numerical + categorical + correlation + missing
           /\ Len(writes) = Cardinality(DOMAIN disk)
           /\ {writes[i].path : i \in DOMAIN writes} = DOMAIN disk

\* a returned run on one numerical and one categorical column without nulls:
\* summary, histogram+boxplot and count plot, three files in all
C1_Witness ==
    /\ pc = "eda_done"
    /\ Len(df) = 2
    /\ df[1].dtype = "number" /\ df[2].dtype = "object"
    /\ df[1].name # df[2].name
    /\ ~HasNulls(df)
    /\ Cardinality(DOMAIN disk) = 3
    /\ FilesOfKind("correlation_matrix") = {}
    /\ FilesOfKind("missing_values") = {}

\* C2: a run of the report function that returns has written the
\* missing-values chart exactly once if some column holds a null, and not
\* at all if none does
C2_MissingValuesGating ==
    pc = "eda_done" =>
        Cardinality(WritesOfKind("missing_values")) = IF HasNulls(df) THEN 1 ELSE 0

C2_Witness ==
    /\ pc = "eda_done"
    /\ HasNulls(df)
    /\ Cardinality(WritesOfKind("missing_values")) = 1

\* C3: at every point of a run of the report function: without numerical
\* columns no histogram+boxplot and no correlation matrix is written, with
\* one numerical column no correlation matrix is written, and a correlation
\* matrix is written only with more than one numerical column
C3_NumericalGating ==
    LET numerical == CountOfDtype(df, {"number"})
    IN /\ numerical = 0 =>
            /\ WritesOfKind("histogram_boxplot") = {}
            /\ WritesOfKind("correlation_matrix") = {}
       /\ numerical = 1 => WritesOfKind("correlation_matrix") = {}
       /\ WritesOfKind("correlation_matrix") # {} => numerical > 1

\* a returned run on exactly one numerical column: its histogram+boxplot is
\* there and no correlation matrix
C3_Witness ==
    /\ pc = "eda_done"
    /\ CountOfDtype(df, {"number"}) = 1
    /\ WritesOfKind("histogram_boxplot") # {}
    /\ WritesOfKind("correlation_matrix") = {}

\* C4: in a run of the report function that returns, the summary carries the
\* "No categorical columns found" line iff no count plot was written, iff
\* the frame has no object, category or bool column (stated for the frames
\* with distinct column names, on which every step of the run is defined)
C4_BooleanAsCategorical ==
    (pc = "eda_done" /\ DistinctNames(df)) =>
        \A p \in FilesOfKind("summary") :
            /\ disk[p].notice <=> WritesOfKind("count_plot") = {}
            /\ disk[p].notice <=> CountOfDtype(df, {"object", "category", "bool"}) = 0

\* C5: once the data file exists no step changes it, and a generator run
\* that finds it present ends as the skipped, successful, outcome
C5_DataFileImmutable ==
    [][/\ dataFile.exists => dataFile' = dataFile
       /\ (dataFile.exists /\ genOutcome' # genOutcome) => genOutcome' = "skipped"]_vars

\* the generator was run again on the existing file, and the reporter ran
\* to its end
C5_Witness ==
    /\ dataFile.exists
    /\ genOutcome = "skipped"
    /\ pc = "finished"

\* C6, as stated: a step of the reporter taken while the data file is absent
\* prints the hint and exits, opens no connection, executes no query, writes
\* no file, and has no other effect
C6_NoOtherEffect ==
    [][(~dataFile.exists /\ ~dataFile'.exists) =>
          /\ pc' = "exited" /\ hint'
          /\ con' = "none" /\ queries' = <<>>
          /\ writes' = <<>> /\ disk' = disk
          /\ outDirExists' = outDirExists]_vars

\* C6, amended: a step of the reporter taken while the data file is absent
\* prints the hint and exits, opens no connection, executes no query and
\* writes no file; its one other effect is that the output directory exists
C6_ExitsWithoutWork ==
    [][(~dataFile.exists /\ ~dataFile'.exists) =>
          /\ pc' = "exited" /\ hint'
          /\ con' = "none" /\ queries' = <<>>
          /\ writes' = <<>> /\ disk' = disk
          /\ outDirExists']_vars

C6_Witness ==
    /\ ~dataFile.exists
    /\ pc = "exited"
    /\ hint
    /\ outDirExists
    /\ DOMAIN disk = {}

\* C7: the daily-sales rows are one per calendar date of the input rows, in
\* ascending date order, each with the date's sum of quantity times price,
\* its number of distinct transaction ids, and an average that is the sum
\* divided by the number of the date's rows
C7_DailySales ==
    pc = "eda_summary" =>
        LET rows == dataFile.rows
            dates == {rows[i].transaction_date[1] : i \in DOMAIN rows}
            On(d) == {i \in DOMAIN rows : rows[i].transaction_date[1] = d}
        IN /\ Len(result) = Cardinality(dates)
           /\ {result[k].sale_date : k \in DOMAIN result} = dates
           /\ \A k, l \in DOMAIN result :
                k < l => result[k].sale_date < result[l].sale_date
           /\ \A k \in DOMAIN result :
                LET G == On(result[k].sale_date)
                IN /\ result[k].total_revenue = SumOver(Revenue(rows), G)
                   /\ result[k].number_of_orders =
                        Cardinality({rows[i].transaction_id : i \in G})
                   /\ result[k].average_order_value.den > 0
                   /\ result[k].average_order_value.num * Cardinality(G) =
                        result[k].total_revenue * result[k].average_order_value.den

\* three rows over two dates, two of them with the same transaction id on
\* the same date: two result rows, one counting fewer orders than rows
C7_Witness ==
    /\ pc = "eda_summary"
    /\ Len(dataFile.rows) = 3
    /\ Len(result) = 2
    /\ \E k \in DOMAIN result :
        result[k].number_of_orders < result[k].average_order_value.den

\* C8: a step that raises terminates the process; from then on the process
\* writes no file, executes no query and runs no further report, and the
\* files written before the failing step are still there, unchanged
C8_FailureAborts ==
    [][/\ (error = "none" /\ error' # "none") =>
            /\ pc' = "aborted"
            /\ \A i \in DOMAIN writes :
                /\ i \in DOMAIN writes' /\ writes'[i] = writes[i]
                /\ writes[i].path \in DOMAIN disk'
                /\ disk'[writes[i].path] = disk[writes[i].path]
       /\ (error # "none" /\ error' # "none") =>
            UNCHANGED <<pc, disk, writes, queries, con, df, title, result>>]_vars

\* the daily-sales report failed in a chart after writing files: the files
\* are there and the category-performance query was never executed
C8_Witness ==
    /\ pc = "aborted"
    /\ error = "univariate_numerical"
    /\ title = "duckdb_daily_sales"
    /\ Len(writes) >= 2
    /\ \A i \in DOMAIN writes : writes[i].path \in DOMAIN disk
    /\ Len(queries) = 1

\* C9: a reporter process that opened the connection has closed it when it
\* has ended, and every query was executed on the open connection
C9_ConnectionClosed ==
    /\ (pc \in Idle /\ con # "none") => con = "closed"
    /\ \A i \in DOMAIN queries : queries[i].con = "open"

\* C10: no two writes of one reporter process go to the same path
C10_UniquePaths ==
    \A i, j \in DOMAIN writes : i # j => writes[i].path # writes[j].path

\* both reports were written in full: 5 files for the daily sales, 7 for the
\* category performance
C10_Witness ==
    /\ pc = "finished"
    /\ Len(writes) = 12
    /\ Cardinality(DOMAIN disk) = 12

====
